---- MODULE Spec2Model ----
(***************************************************************************)
(* Model of dairy_dashboard.py: the sqlite tables (settings, customers,    *)
(* entries), the data-layer functions over them, the pricing function,     *)
(* and the page handlers that call them.                                   *)
(*                                                                         *)
(* Numbers.  REAL values are exact decimals held as integers in            *)
(* thousandths (4.0 is 4000); a product of two of them is in millionths.   *)
(* round(x, 2) rounds a value in millionths to hundredths, ties to even.   *)
(* The binary representation error of Python floats is not modelled.       *)
(*                                                                         *)
(* Text.  A text is a sequence of one-character strings; an Optional is    *)
(* <<>> (None) or <<v>>.                                                   *)
(***************************************************************************)
EXTENDS Integers, Sequences, FiniteSets, TLC

VARIABLES settings, customers, custSeq, entries, result, msg

vars == <<settings, customers, custSeq, entries, result, msg>>

(* ------------------------------ bounds --------------------------------- *)

MaxCustId == 2
MaxEntries == 2

(* ------------------------------ text ----------------------------------- *)

None == <<>>
Some(v) == <<v>>

Code(ch) ==
  CASE ch = " " -> 32
    [] ch = "-" -> 45
    [] ch = "0" -> 48 [] ch = "1" -> 49 [] ch = "2" -> 50 [] ch = "3" -> 51
    [] ch = "4" -> 52 [] ch = "5" -> 53 [] ch = "6" -> 54 [] ch = "7" -> 55
    [] ch = "8" -> 56 [] ch = "9" -> 57
    [] ch = "a" -> 97 [] ch = "b" -> 98 [] ch = "x" -> 120

\* sqlite BINARY collation / memcmp: s < t
RECURSIVE TextLess(_, _)
TextLess(s, t) ==
  IF t = <<>> THEN FALSE
  ELSE IF s = <<>> THEN TRUE
  ELSE IF Code(Head(s)) # Code(Head(t)) THEN Code(Head(s)) < Code(Head(t))
  ELSE TextLess(Tail(s), Tail(t))

TextLeq(s, t) == s = t \/ TextLess(s, t)

RECURSIVE lstrip(_)
lstrip(s) == IF s # <<>> /\ Head(s) = " " THEN lstrip(Tail(s)) ELSE s

RECURSIVE rstrip(_)
rstrip(s) ==
  IF s # <<>> /\ s[Len(s)] = " " THEN rstrip(SubSeq(s, 1, Len(s) - 1)) ELSE s

\* str.strip()
strip(s) == rstrip(lstrip(s))

\* (x or "").strip()
OrEmptyStrip(opt) == IF opt = None THEN <<>> ELSE strip(opt[1])

(* ------------------------------ dates ---------------------------------- *)

\* a date is <<year, month, day>>
Digit(k) ==
  CASE k = 0 -> "0" [] k = 1 -> "1" [] k = 2 -> "2" [] k = 3 -> "3" [] k = 4 -> "4"
    [] k = 5 -> "5" [] k = 6 -> "6" [] k = 7 -> "7" [] k = 8 -> "8" [] k = 9 -> "9"

\* date.isoformat(): yyyy-mm-dd
isoformat(d) ==
  << Digit(d[1] \div 1000), Digit((d[1] \div 100) % 10), Digit((d[1] \div 10) % 10),
     Digit(d[1] % 10), "-", Digit(d[2] \div 10), Digit(d[2] % 10), "-",
     Digit(d[3] \div 10), Digit(d[3] % 10) >>

(* ----------------------------- numbers --------------------------------- *)

Max(a, b) == IF a >= b THEN a ELSE b

\* x / d rounded to the nearest integer, ties to the even one
RoundHalfEven(x, d) ==
  LET q == x \div d
      r == x % d
  IN IF 2 * r < d THEN q
     ELSE IF 2 * r > d THEN q + 1
     ELSE IF q % 2 = 0 THEN q ELSE q + 1

\* round(x, 2) of a value in millionths, as thousandths
round2(x) == 10 * RoundHalfEven(x, 10000)

(* ----------------------------- init_db --------------------------------- *)

DefaultBaseFat == 3500
DefaultBaseSnf == 8500
DefaultBaseRate == 30000
DefaultFatRate == 4000
DefaultSnfRate == 2000

DefaultSettings ==
  [base_fat |-> DefaultBaseFat, base_snf |-> DefaultBaseSnf, base_rate |-> DefaultBaseRate,
   fat_rate |-> DefaultFatRate, snf_rate |-> DefaultSnfRate]

NoResult == [op |-> "none", arg |-> <<>>, status |-> "ok"]

Init ==
  /\ settings = DefaultSettings
  /\ customers = {}
  /\ custSeq = 0
  /\ entries = <<>>
  /\ result = NoResult
  /\ msg = ""

(* --------------------------- data layer -------------------------------- *)

\* Python truthiness of an Optional[int]: None and 0 are false
Truthy(opt) == opt # None /\ opt[1] # 0

HasCustomer(id) == \E c \in customers : c.id = id

CustomerById(id) == CHOOSE c \in customers : c.id = id

\* the outcome of the last call: what it was given as customer_id, and what it
\* returned or raised
Ok(op, arg) == [op |-> op, arg |-> arg, status |-> "ok"]

Raised(op, arg, exc) == [op |-> op, arg |-> arg, status |-> exc]

Returned(op, arg, v) == [op |-> op, arg |-> arg, status |-> "ok", value |-> v]

\* an update that also reprices the stored entries under the new settings
update_settings_Reprice(base_fat, base_snf, base_rate, fat_rate, snf_rate) ==
  LET srow == [base_fat |-> base_fat, base_snf |-> base_snf, base_rate |-> base_rate,
               fat_rate |-> fat_rate, snf_rate |-> snf_rate]
      Rate(e) == round2(srow.base_rate * 1000 + (e.fat - srow.base_fat) * srow.fat_rate
                          + (e.snf - srow.base_snf) * srow.snf_rate)
  IN /\ settings' = srow
     /\ entries' = [i \in 1..Len(entries) |->
                      [entries[i] EXCEPT !.rate = Rate(entries[i]),
                                         !.amount = round2(Max(0, Rate(entries[i]))
                                                             * entries[i].qty_liters)]]
     /\ result' = Ok("update_settings", None)
     /\ UNCHANGED <<customers, custSeq>>

update_settings(base_fat, base_snf, base_rate, fat_rate, snf_rate) ==
  /\ settings' = [base_fat |-> base_fat, base_snf |-> base_snf, base_rate |-> base_rate,
                  fat_rate |-> fat_rate, snf_rate |-> snf_rate]
  /\ result' = Ok("update_settings", None)
  /\ UNCHANGED <<customers, custSeq, entries>>

\* the row values upsert_customer binds: every text stripped
CustomerRow(id, name, phone, address, notes) ==
  [id |-> id, name |-> strip(name), phone |-> OrEmptyStrip(phone),
   address |-> OrEmptyStrip(address), notes |-> OrEmptyStrip(notes)]

\* a customers table declared without UNIQUE on name
NameTaken_NotUnique(name, exceptId) == FALSE

\* customers.name is UNIQUE: another row already holds the name
NameTaken(name, exceptId) == \E c \in customers : c.id # exceptId /\ c.name = name

upsert_customer(name, phone, address, notes, customer_id) ==
  IF Truthy(customer_id)
  THEN LET id == customer_id[1] IN
       IF HasCustomer(id) /\ NameTaken(strip(name), id)
       THEN /\ result' = Raised("upsert_customer", customer_id, "IntegrityError")
            /\ UNCHANGED <<settings, customers, custSeq, entries>>
       ELSE /\ customers' =
                 IF HasCustomer(id)
                 THEN (customers \ {CustomerById(id)})
                        \cup {CustomerRow(id, name, phone, address, notes)}
                 ELSE customers
            /\ result' = Returned("upsert_customer", customer_id, id)
            /\ UNCHANGED <<settings, custSeq, entries>>
  ELSE IF NameTaken(strip(name), 0)
       THEN /\ result' = Raised("upsert_customer", customer_id, "IntegrityError")
            /\ UNCHANGED <<settings, customers, custSeq, entries>>
       ELSE /\ custSeq < MaxCustId
            /\ customers' = customers \cup {CustomerRow(custSeq + 1, name, phone, address, notes)}
            /\ custSeq' = custSeq + 1
            /\ result' = Returned("upsert_customer", customer_id, custSeq + 1)
            /\ UNCHANGED <<settings, entries>>

EntryCount(customer_id) ==
  Cardinality({i \in 1..Len(entries) : entries[i].customer_id = customer_id})

\* a delete that skips the count of referencing entries
delete_customer_Unguarded(customer_id) ==
  /\ customers' = {c \in customers : c.id # customer_id}
  /\ result' = Ok("delete_customer", Some(customer_id))
  /\ UNCHANGED <<settings, custSeq, entries>>

delete_customer(customer_id) ==
  IF EntryCount(customer_id) > 0
  THEN /\ result' = Raised("delete_customer", Some(customer_id), "ValueError")
       /\ UNCHANGED <<settings, customers, custSeq, entries>>
  ELSE /\ customers' = {c \in customers : c.id # customer_id}
       /\ result' = Ok("delete_customer", Some(customer_id))
       /\ UNCHANGED <<settings, custSeq, entries>>

add_entry(entry_date, customer_id, qty_liters, fat, snf, rate, amount, notes) ==
  /\ Len(entries) < MaxEntries
  /\ entries' = Append(entries,
        [id |-> Len(entries) + 1, entry_date |-> isoformat(entry_date),
         customer_id |-> customer_id, qty_liters |-> qty_liters, fat |-> fat, snf |-> snf,
         rate |-> rate, amount |-> amount, notes |-> OrEmptyStrip(notes)])
  /\ result' = Ok("add_entry", Some(customer_id))
  /\ UNCHANGED <<settings, customers, custSeq>>

(* -------------------------- business logic ----------------------------- *)

\* the amount taken from the computed rate without the clamp at 0
compute_rate_and_amount_NoClamp(fat, snf, qty_liters, srow) ==
  LET rate == round2(srow.base_rate * 1000 + (fat - srow.base_fat) * srow.fat_rate
                       + (snf - srow.base_snf) * srow.snf_rate)
  IN <<rate, round2(rate * qty_liters)>>

compute_rate_and_amount(fat, snf, qty_liters, srow) ==
  LET rate == round2(srow.base_rate * 1000 + (fat - srow.base_fat) * srow.fat_rate
                       + (snf - srow.base_snf) * srow.snf_rate)
      amount == round2(Max(0, rate) * qty_liters)
  IN <<rate, amount>>

(* ----------------- data-layer calls with any arguments ----------------- *)

NameInputs == { <<"a">>, <<" ", "a", " ">>, <<"b">> }
PhoneInputs == { None, Some(<<"9", " ">>) }
EntryDay == <<2024, 1, 31>>

\* ids a caller may pass: None, 0, every id the table can hold, and one it never holds
CustIdInputs == 0..(MaxCustId + 1)
OptCustIdInputs == {None} \cup {Some(i) : i \in CustIdInputs}

CallUpsertCustomer ==
  \E name \in NameInputs, phone \in PhoneInputs, cid \in OptCustIdInputs :
    upsert_customer(name, phone, None, Some(<<>>), cid) /\ UNCHANGED msg

CallDeleteCustomer ==
  \E cid \in CustIdInputs : delete_customer(cid) /\ UNCHANGED msg

CallAddEntry ==
  \E cid \in CustIdInputs :
    add_entry(EntryDay, cid, 10000, 4000, 8500, 32000, 320000, None) /\ UNCHANGED msg

Next == CallUpsertCustomer \/ CallDeleteCustomer \/ CallAddEntry

Spec == Init /\ [][Next]_vars

(* ------------------------------ queries -------------------------------- *)

\* a row of SELECT e.id, e.entry_date, c.name AS customer, ... FROM entries e JOIN customers c
JoinedRow(e, c) ==
  [id |-> e.id, entry_date |-> e.entry_date, customer |-> c.name,
   qty_liters |-> e.qty_liters, fat |-> e.fat, snf |-> e.snf, rate |-> e.rate,
   amount |-> e.amount, notes |-> e.notes]

\* the rows the WHERE clause built by query_entries keeps; a false customer_id
\* (None, 0) adds no condition, dates compare as ISO text
QueryRows(customer_id, start_date, end_date) ==
  { JoinedRow(entries[i], c) : <<i, c>> \in
      { ic \in (1..Len(entries)) \X customers :
          /\ entries[ic[1]].customer_id = ic[2].id
          /\ Truthy(customer_id) => entries[ic[1]].customer_id = customer_id[1]
          /\ start_date # None => TextLeq(isoformat(start_date[1]), entries[ic[1]].entry_date)
          /\ end_date # None => TextLeq(entries[ic[1]].entry_date, isoformat(end_date[1])) } }

\* ORDER BY e.entry_date ASC, c.name ASC
InOrderBy(r1, r2) ==
  \/ TextLess(r1.entry_date, r2.entry_date)
  \/ r1.entry_date = r2.entry_date /\ TextLeq(r1.customer, r2.customer)

\* the results query_entries can return: the kept rows in any order the ORDER BY
\* allows (rows equal in date and name come in either order)
query_entries(customer_id, start_date, end_date) ==
  LET rows == QueryRows(customer_id, start_date, end_date)
      n == Cardinality(rows)
  IN { df \in [1..n -> rows] :
         /\ \A i \in 1..n, j \in 1..n : i < j => df[i] # df[j] /\ InOrderBy(df[i], df[j]) }

(* ------------------------------ reports -------------------------------- *)

RECURSIVE SumOf(_, _)
\* Series.sum() of one column of df
SumOf(col, df) == IF df = <<>> THEN 0 ELSE Head(df)[col] + SumOf(col, Tail(df))

RECURSIVE SumOfProduct(_, _, _)
\* (df[col1] * df[col2]).sum()
SumOfProduct(col1, col2, df) ==
  IF df = <<>> THEN 0
  ELSE Head(df)[col1] * Head(df)[col2] + SumOfProduct(col1, col2, Tail(df))

\* a quotient a / b of two floats is kept as the pair <<a, b>>; 0.0 is <<0, 1>>
Quotient(a, b) == <<a, b>>
Zero == Quotient(0, 1)

\* page_reports: the four metrics over the queried rows
summarize(df) ==
  LET total_liters == SumOf("qty_liters", df) IN
  [total_liters |-> total_liters,
   avg_fat |-> IF total_liters # 0 THEN Quotient(SumOfProduct("fat", "qty_liters", df), total_liters) ELSE Zero,
   avg_snf |-> IF total_liters # 0 THEN Quotient(SumOfProduct("snf", "qty_liters", df), total_liters) ELSE Zero,
   total_amount |-> SumOf("amount", df)]

\* the rows of df of one entry_date, in df's order
RowsOn(df, d) == SelectSeq(df, LAMBDA r : r.entry_date = d)

\* a daily row whose means are weighted by quantity, as summarize's are
DailyRow_Weighted(df, d) ==
  LET g == RowsOn(df, d) IN
  [entry_date |-> d,
   total_liters |-> SumOf("qty_liters", g),
   avg_fat |-> Quotient(SumOfProduct("fat", "qty_liters", g), SumOf("qty_liters", g)),
   avg_snf |-> Quotient(SumOfProduct("snf", "qty_liters", g), SumOf("qty_liters", g)),
   total_amount |-> SumOf("amount", g)]

\* one row of groupby("entry_date").agg(sum, mean, mean, sum)
DailyRow(df, d) ==
  LET g == RowsOn(df, d) IN
  [entry_date |-> d,
   total_liters |-> SumOf("qty_liters", g),
   avg_fat |-> Quotient(SumOf("fat", g), Len(g)),
   avg_snf |-> Quotient(SumOf("snf", g), Len(g)),
   total_amount |-> SumOf("amount", g)]

\* the sequence of the dates of a set, ascending (groupby sorts its keys)
RECURSIVE SortedDates(_)
SortedDates(ds) ==
  IF ds = {} THEN <<>>
  ELSE LET first == CHOOSE d \in ds : \A o \in ds : TextLeq(d, o)
       IN <<first>> \o SortedDates(ds \ {first})

\* page_reports: df_daily
daily_summary(df) ==
  LET days == SortedDates({df[i].entry_date : i \in 1..Len(df)})
  IN [k \in 1..Len(days) |-> DailyRow(df, days[k])]

(* ------------------------------ pages ---------------------------------- *)

\* the row a selectbox of customer names picks: df[df["name"] == selection].iloc[0]
CustomerByName(name) == CHOOSE c \in customers : c.name = name

CustomerNames == {c.name : c \in customers}

\* st.number_input(min_value, max_value)
InRange(v, lo, hi) == lo <= v /\ v <= hi

\* page_settings, "Save Settings"
page_settings_save(base_fat, base_snf, base_rate, fat_rate, snf_rate) ==
  /\ InRange(base_fat, 0, 12000) /\ InRange(base_snf, 0, 12000)
  /\ InRange(base_rate, 0, 999000)
  /\ InRange(fat_rate, -99000, 99000) /\ InRange(snf_rate, -99000, 99000)
  /\ update_settings(base_fat, base_snf, base_rate, fat_rate, snf_rate)
  /\ msg' = "Settings saved"

\* page_customers, "Save": selection is None for "(New)" or Some(name of a customer)
page_customers_save(selection, name, phone, address, notes) ==
  /\ selection # None => selection[1] \in CustomerNames
  /\ LET cust_id == IF selection = None THEN None
                    ELSE Some(CustomerByName(selection[1]).id)
     IN IF strip(name) = <<>>
        THEN /\ msg' = "Name is required."
             /\ UNCHANGED <<settings, customers, custSeq, entries, result>>
        ELSE /\ upsert_customer(name, Some(phone), Some(address), Some(notes), cust_id)
             /\ msg' = IF result'.status = "IntegrityError" THEN "Error" ELSE "Saved"

\* page_customers, "Delete": the button is disabled for "(New)"
page_customers_delete(selection) ==
  /\ selection # None
  /\ selection[1] \in CustomerNames
  /\ delete_customer(CustomerByName(selection[1]).id)
  /\ msg' = IF result'.status = "ok" THEN "Deleted" ELSE "Error"

\* page_entry without the check of the quantity
page_entry_save_NoQtyCheck(entry_date, cust_name, qty, fat, snf, notes) ==
  /\ customers # {}
  /\ cust_name \in CustomerNames
  /\ InRange(qty, 0, 2000000) /\ InRange(fat, 0, 12000) /\ InRange(snf, 0, 12000)
  /\ LET customer_id == CustomerByName(cust_name).id
         ra == compute_rate_and_amount(fat, snf, qty, settings)
     IN /\ add_entry(entry_date, customer_id, qty, fat, snf, ra[1], ra[2], Some(notes))
        /\ msg' = "Entry saved"

\* page_entry pricing with the default settings instead of the stored ones
page_entry_save_DefaultSettings(entry_date, cust_name, qty, fat, snf, notes) ==
  /\ customers # {}
  /\ cust_name \in CustomerNames
  /\ InRange(qty, 0, 2000000) /\ InRange(fat, 0, 12000) /\ InRange(snf, 0, 12000)
  /\ LET customer_id == CustomerByName(cust_name).id
         ra == compute_rate_and_amount(fat, snf, qty, DefaultSettings)
     IN IF qty <= 0
        THEN /\ msg' = "Quantity must be positive."
             /\ UNCHANGED <<settings, customers, custSeq, entries, result>>
        ELSE /\ add_entry(entry_date, customer_id, qty, fat, snf, ra[1], ra[2], Some(notes))
             /\ msg' = "Entry saved"

\* page_entry, "Save Entry": the rate and amount shown are those of the settings
\* fetched in the same run; the listing of recent entries that follows only reads
page_entry_save(entry_date, cust_name, qty, fat, snf, notes) ==
  /\ customers # {}
  /\ cust_name \in CustomerNames
  /\ InRange(qty, 0, 2000000) /\ InRange(fat, 0, 12000) /\ InRange(snf, 0, 12000)
  /\ LET customer_id == CustomerByName(cust_name).id
         ra == compute_rate_and_amount(fat, snf, qty, settings)
     IN IF qty <= 0
        THEN /\ msg' = "Quantity must be positive."
             /\ UNCHANGED <<settings, customers, custSeq, entries, result>>
        ELSE /\ add_entry(entry_date, customer_id, qty, fat, snf, ra[1], ra[2], Some(notes))
             /\ msg' = "Entry saved"

\* page_reports: customer_name is None for "All"; both dates are always given
page_reports(customer_name, start_date, end_date) ==
  /\ customer_name # None => customer_name[1] \in CustomerNames
  /\ LET customer_id == IF customer_name = None THEN None
                        ELSE Some(CustomerByName(customer_name[1]).id)
         arg == <<customer_id, Some(start_date), Some(end_date)>>
     IN \E df \in query_entries(customer_id, Some(start_date), Some(end_date)) :
          IF df = <<>>
          THEN /\ msg' = "No records found"
               /\ result' = Returned("page_reports", arg, [df |-> df])
          ELSE /\ msg' = "Report"
               /\ result' = Returned("page_reports", arg,
                               [df |-> df, summary |-> summarize(df),
                                daily |-> daily_summary(df)])
  /\ UNCHANGED <<settings, customers, custSeq, entries>>

\* settings a user can save: the defaults, and a base rate of 0 under which milk
\* below the base fat prices negative
SettingsInputs ==
  { DefaultSettings, [DefaultSettings EXCEPT !.base_rate = 0] }

PageNameInputs == { <<"a">>, <<"a", " ">>, <<"b">>, <<" ">> }
PageQtyInputs == { 0, 10250 }
PageFatInputs == { 3333, 4000 }
PageSnfInputs == { 8500 }

Selections == {None} \cup {Some(n) : n \in CustomerNames}

PageSettingsSave ==
  \E s \in SettingsInputs :
    page_settings_save(s.base_fat, s.base_snf, s.base_rate, s.fat_rate, s.snf_rate)

PageCustomersSave ==
  \E sel \in Selections, name \in PageNameInputs :
    page_customers_save(sel, name, <<>>, <<>>, <<>>)

PageCustomersDelete == \E sel \in Selections : page_customers_delete(sel)

PageEntrySave ==
  \E n \in CustomerNames, q \in PageQtyInputs, f \in PageFatInputs, sn \in PageSnfInputs :
    page_entry_save(EntryDay, n, q, f, sn, <<>>)

NextPages == PageSettingsSave \/ PageCustomersSave \/ PageCustomersDelete \/ PageEntrySave

SpecPages == Init /\ [][NextPages]_vars

(* --------------------- the pricing function alone ---------------------- *)

CalcFatInputs == { -1000, 0, 2000, 3333, 4000 }
CalcSnfInputs == { 6000, 8500 }
CalcQtyInputs == { -10000, 0, 10000, 10250 }
CalcSettingsInputs ==
  SettingsInputs \cup { [DefaultSettings EXCEPT !.fat_rate = -4000, !.snf_rate = 500] }

CallCompute ==
  \E fat \in CalcFatInputs, snf \in CalcSnfInputs, qty \in CalcQtyInputs,
     srow \in CalcSettingsInputs :
    /\ result' = Returned("compute_rate_and_amount",
                          [fat |-> fat, snf |-> snf, qty_liters |-> qty, srow |-> srow],
                          compute_rate_and_amount(fat, snf, qty, srow))
    /\ UNCHANGED <<settings, customers, custSeq, entries, msg>>

NextCalc == CallCompute

SpecCalc == Init /\ [][NextCalc]_vars

(* ------------------------ queries over the ledger ---------------------- *)

QueryDates == { <<2023, 12, 31>>, <<2024, 1, 5>> }
OptQueryDates == {None} \cup {Some(d) : d \in QueryDates}
QueryNameInputs == { <<"a">>, <<"b">> }

QueryUpsertCustomer ==
  \E name \in QueryNameInputs, cid \in OptCustIdInputs :
    upsert_customer(name, None, None, None, cid) /\ UNCHANGED msg

QueryAddEntry ==
  \E d \in QueryDates, cid \in CustIdInputs :
    add_entry(d, cid, 10000, 4000, 8500, 32000, 320000, None) /\ UNCHANGED msg

CallQueryEntries ==
  \E cid \in OptCustIdInputs, sd \in OptQueryDates, ed \in OptQueryDates :
    \E df \in query_entries(cid, sd, ed) :
      /\ result' = Returned("query_entries", <<cid, sd, ed>>, df)
      /\ UNCHANGED <<settings, customers, custSeq, entries, msg>>

NextQuery == QueryUpsertCustomer \/ QueryAddEntry \/ CallQueryEntries

SpecQuery == Init /\ [][NextQuery]_vars

(* ------------------------ reports over the ledger ---------------------- *)

ReportQtyInputs == { 0, 10000, 30000 }
ReportQualityInputs == { <<4000, 8500>>, <<2000, 6000>> }

ReportUpsertCustomer ==
  upsert_customer(<<"a">>, None, None, None, None) /\ UNCHANGED msg

ReportAddEntry ==
  \E d \in QueryDates, c \in customers, q \in ReportQtyInputs, fs \in ReportQualityInputs :
    LET ra == compute_rate_and_amount(fs[1], fs[2], q, settings)
    IN add_entry(d, c.id, q, fs[1], fs[2], ra[1], ra[2], None) /\ UNCHANGED msg

PageReports ==
  \E n \in {None} \cup {Some(x) : x \in CustomerNames}, sd \in QueryDates, ed \in QueryDates :
    page_reports(n, sd, ed)

NextReports == ReportUpsertCustomer \/ ReportAddEntry \/ PageReports

SpecReports == Init /\ [][NextReports]_vars

(* ------------------- claims about the data layer ----------------------- *)

Referenced(id) == \E i \in 1..Len(entries) : entries[i].customer_id = id

\* C1: delete_customer(id) succeeds and removes the customer when no stored entry
\* has customer_id = id; when an entry references id it raises, and customers and
\* entries are exactly what they were before the call.
C1_DeleteGuard ==
  [][result'.op = "delete_customer" =>
       LET cid == result'.arg[1] IN
       delete_customer(cid) =>
         IF Referenced(cid)
         THEN /\ result'.status # "ok"
              /\ customers' = customers
              /\ entries' = entries
         ELSE /\ result'.status = "ok"
              /\ customers' = {c \in customers : c.id # cid}
              /\ \A c \in customers' : c.id # cid
              /\ entries' = entries]_vars

\* a delete of an existing, referenced customer was refused
C1_Witness ==
  /\ result.op = "delete_customer"
  /\ result.status = "ValueError"
  /\ HasCustomer(result.arg[1])
  /\ Referenced(result.arg[1])

\* C2: in every reachable state every stored entry's customer_id is the id of a
\* customer that exists; add_entry with an id that names no customer stores nothing.
C2_NoDanglingReference ==
  \A i \in 1..Len(entries) : HasCustomer(entries[i].customer_id)

UniqueNames(cs) == \A c1 \in cs, c2 \in cs : c1.name = c2.name => c1 = c2

\* the call creates a row (customer_id false) or edits an existing one
CreatesOrEdits(cid) == ~Truthy(cid) \/ HasCustomer(cid[1])

\* the id the call's own row has: 0 (no row yet) for a create
OwnId(cid) == IF Truthy(cid) THEN cid[1] ELSE 0

\* C4: customer names are unique in every reachable state: an upsert_customer call,
\* creating or editing, whose stripped name is the stored name of another customer
\* raises and leaves every customer record untouched.
C4_UniqueNames ==
  [][/\ UniqueNames(customers')
     /\ result'.op = "upsert_customer" =>
          LET cid == result'.arg IN
          \A name \in NameInputs, phone \in PhoneInputs :
            ( /\ upsert_customer(name, phone, None, Some(<<>>), cid)
              /\ CreatesOrEdits(cid)
              /\ \E c \in customers : c.id # OwnId(cid) /\ c.name = strip(name) )
            => (result'.status = "IntegrityError" /\ customers' = customers)]_vars

\* an edit of an existing customer to another customer's name was refused
C4_Witness ==
  /\ result.op = "upsert_customer"
  /\ result.status = "IntegrityError"
  /\ Truthy(result.arg)
  /\ HasCustomer(result.arg[1])
  /\ Cardinality(customers) = 2

\* C7: upsert_customer with an id that names no customer creates no record, changes
\* none, and does not return the id as if a record had been saved.
C7_UnknownIdNotSaved ==
  [][result'.op = "upsert_customer" =>
       LET cid == result'.arg IN
       \A name \in NameInputs, phone \in PhoneInputs :
         ( /\ upsert_customer(name, phone, None, Some(<<>>), cid)
           /\ Truthy(cid)
           /\ ~HasCustomer(cid[1]) )
         => ( /\ customers' = customers
              /\ ~(result'.status = "ok" /\ result'.value = cid[1]) )]_vars

(* ---------------------- claims about the pages ------------------------- *)

\* C3: a settings update leaves every stored entry as it was stored: no step
\* changes or removes a stored entry, whatever the settings become.
C3_SnapshotImmutable ==
  [][\A i \in 1..Len(entries) : i <= Len(entries') /\ entries'[i] = entries[i]]_vars

\* settings were saved after an entry was stored, and the entry keeps a rate the
\* settings now in force would not give
C3_Witness ==
  /\ result.op = "update_settings"
  /\ \E i \in 1..Len(entries) :
       entries[i].rate #
         compute_rate_and_amount(entries[i].fat, entries[i].snf, entries[i].qty_liters,
                                 settings)[1]

\* C6: saving an entry with qty <= 0 fails with a validation message and stores
\* nothing, so every stored entry has qty_liters > 0.
C6_PositiveQuantity ==
  [][/\ \A i \in 1..Len(entries') : entries'[i].qty_liters > 0
     /\ \A n \in CustomerNames, q \in PageQtyInputs, f \in PageFatInputs,
           sn \in PageSnfInputs :
          (q <= 0 /\ page_entry_save(EntryDay, n, q, f, sn, <<>>))
          => (msg' = "Quantity must be positive." /\ entries' = entries)]_vars

\* a save with quantity 0 was refused while entries are stored
C6_Witness == msg = "Quantity must be positive." /\ Len(entries) > 0

\* C8: every entry stored has the rate compute_rate_and_amount gives for its fat and
\* snf under the settings in force when it is inserted, and
\* amount = round(max(0, rate) * qty_liters, 2); neither value changes afterwards.
C8_AmountFormula ==
  [][\A i \in 1..Len(entries') :
       LET e == entries'[i] IN
       /\ e.amount = round2((IF e.rate > 0 THEN e.rate ELSE 0) * e.qty_liters)
       /\ IF i <= Len(entries)
          THEN e.rate = entries[i].rate /\ e.amount = entries[i].amount
          ELSE e.rate = compute_rate_and_amount(e.fat, e.snf, e.qty_liters, settings)[1]]_vars

\* an entry priced at a negative rate is stored with amount 0, next to one priced
\* at a positive rate
C8_Witness ==
  /\ \E i \in 1..Len(entries) : entries[i].rate < 0 /\ entries[i].amount = 0
  /\ \E i \in 1..Len(entries) : entries[i].rate > 0 /\ entries[i].amount > 0

(* ----------------- claims about pricing, queries, reports -------------- *)

\* C5 as stated: for all fat, snf, qty_liters and settings, compute_rate_and_amount
\* returns amount >= 0.
C5_AmountNonNegative ==
  result.op = "compute_rate_and_amount" => result.value[2] >= 0

\* C5 as amended: for all fat, snf and settings and every qty_liters >= 0,
\* compute_rate_and_amount returns amount >= 0.
C5_AmountNonNegativeForQty ==
  (result.op = "compute_rate_and_amount" /\ result.arg.qty_liters >= 0)
    => result.value[2] >= 0

\* fat and snf below base drove the rate negative, and a positive quantity is
\* priced at amount 0
C5_Witness ==
  /\ result.op = "compute_rate_and_amount"
  /\ result.arg.fat < result.arg.srow.base_fat
  /\ result.arg.snf < result.arg.srow.base_snf
  /\ result.arg.qty_liters > 0
  /\ result.value[1] < 0
  /\ result.value[2] = 0

RECURSIVE SetSum(_, _, _)
\* the sum of column col over the rows of df with index in S
SetSum(col, df, S) ==
  IF S = {} THEN 0
  ELSE LET i == CHOOSE x \in S : TRUE IN df[i][col] + SetSum(col, df, S \ {i})

RECURSIVE SetSumProduct(_, _, _, _)
\* the sum of col1 * col2 over the rows of df with index in S
SetSumProduct(col1, col2, df, S) ==
  IF S = {} THEN 0
  ELSE LET i == CHOOSE x \in S : TRUE
       IN df[i][col1] * df[i][col2] + SetSumProduct(col1, col2, df, S \ {i})

Abs(x) == IF x < 0 THEN -x ELSE x

RECURSIVE Gcd(_, _)
Gcd(a, b) == IF b = 0 THEN a ELSE Gcd(b, a % b)

\* a quotient in lowest terms, its denominator positive
Lowest(p) ==
  LET g == Gcd(Abs(p[1]), Abs(p[2]))
      sign == IF p[2] < 0 THEN -1 ELSE 1
  IN <<sign * (p[1] \div g), sign * (p[2] \div g)>>

\* two quotients denote the same number
SameNumber(p, q) == p[2] # 0 /\ q[2] # 0 /\ Lowest(p) = Lowest(q)

\* C9: summarize gives avg_fat = sum(fat * qty) / sum(qty) (0.0 when the total
\* quantity is 0); the daily summary gives, for each date, avg_fat = (sum of fat over
\* the date's rows) / (their number); total_liters and total_amount are plain sums in
\* both; the same for avg_snf.
C9_Averages ==
  (result.op = "page_reports" /\ result.value.df # <<>>) =>
    LET df == result.value.df
        s == result.value.summary
        daily == result.value.daily
        I == 1..Len(df)
        total == SetSum("qty_liters", df, I)
        days == {df[i].entry_date : i \in I}
    IN /\ s.total_liters = total
       /\ s.total_amount = SetSum("amount", df, I)
       /\ IF total = 0
          THEN s.avg_fat = <<0, 1>> /\ s.avg_snf = <<0, 1>>
          ELSE /\ SameNumber(s.avg_fat,
                             <<SetSumProduct("fat", "qty_liters", df, I), total>>)
               /\ SameNumber(s.avg_snf,
                             <<SetSumProduct("snf", "qty_liters", df, I), total>>)
       /\ Len(daily) = Cardinality(days)
       /\ \A d \in days :
            LET J == {i \in I : df[i].entry_date = d} IN
            \E k \in 1..Len(daily) :
              /\ daily[k].entry_date = d
              /\ daily[k].total_liters = SetSum("qty_liters", df, J)
              /\ daily[k].total_amount = SetSum("amount", df, J)
              /\ SameNumber(daily[k].avg_fat,
                            <<SetSum("fat", df, J), Cardinality(J)>>)
              /\ SameNumber(daily[k].avg_snf,
                            <<SetSum("snf", df, J), Cardinality(J)>>)

\* 30 l at fat 4 and 10 l at fat 2 on one date: the summary's mean is 3.5, the
\* day's is 3.0
C9_Witness ==
  /\ result.op = "page_reports"
  /\ result.value.df # <<>>
  /\ Len(result.value.df) = 2
  /\ Len(result.value.daily) = 1
  /\ SameNumber(result.value.summary.avg_fat, <<3500, 1>>)
  /\ SameNumber(result.value.daily[1].avg_fat, <<3000, 1>>)

DigitVal(ch) == Code(ch) - 48

\* the date an ISO text denotes
fromiso(t) ==
  << DigitVal(t[1]) * 1000 + DigitVal(t[2]) * 100 + DigitVal(t[3]) * 10 + DigitVal(t[4]),
     DigitVal(t[6]) * 10 + DigitVal(t[7]),
     DigitVal(t[9]) * 10 + DigitVal(t[10]) >>

DateLeq(a, b) ==
  \/ a[1] < b[1]
  \/ a[1] = b[1] /\ a[2] < b[2]
  \/ a[1] = b[1] /\ a[2] = b[2] /\ a[3] <= b[3]

\* C10: query_entries(customer_id, start_date, end_date) returns exactly the stored
\* entries that satisfy every given filter (customer_id equal, entry_date >= start,
\* entry_date <= end; an omitted filter excludes nothing), each once, ordered by
\* entry_date and then by customer name.
C10_QueryExact ==
  result.op = "query_entries" =>
    LET cid == result.arg[1]
        sd == result.arg[2]
        ed == result.arg[3]
        df == result.value
        wanted == { i \in 1..Len(entries) :
                      /\ cid # None => entries[i].customer_id = cid[1]
                      /\ sd # None => DateLeq(sd[1], fromiso(entries[i].entry_date))
                      /\ ed # None => DateLeq(fromiso(entries[i].entry_date), ed[1]) }
    IN /\ {df[k].id : k \in 1..Len(df)} = wanted
       /\ Len(df) = Cardinality(wanted)
       /\ \A k \in 1..Len(df), l \in 1..Len(df) :
            k < l =>
              /\ DateLeq(fromiso(df[k].entry_date), fromiso(df[l].entry_date))
              /\ df[k].entry_date = df[l].entry_date => TextLeq(df[k].customer, df[l].customer)

====
